---- MODULE Spec2Model ----
(***************************************************************************)
(* A model of the coroutine library: the fiber (Cor) state machine with    *)
(* its context switches, the N:M Scheduler with its task queue and the     *)
(* per-thread dispatch loop run(), and the IOManager's fd-context table.   *)
(*                                                                         *)
(* Threads are numbered: the thread that constructs the scheduler is       *)
(* CallerTid, the threads start() spawns are CallerTid+1 ..                *)
(* Fibers are numbered too; the number also stands for the fiber's stack   *)
(* (the main fiber's "stack" is the thread's native stack).                *)
(***************************************************************************)
EXTENDS Integers, Sequences, FiniteSets, TLC

\* Largest `threads` argument given to the Scheduler constructor.
MaxThreads == 2
\* Largest number of schedule() calls made by the user program.
MaxTasks == 3

\* Largest number of schedule() calls when the tasks are fibers.
MaxCorTasks == 2

\* Largest number of fibers made by the program that uses Cor directly.
MaxFibers == 2

\* Largest number of addEvent() and delEvent() calls.
MaxIoOps == 3

\* Largest number of schedule() calls where progress under fair scheduling
\* of the threads is checked.
MaxLiveTasks == 1

\* scheduler.h: thread = -1 means "any thread".
AnyThread == -1
\* The thread that constructs the scheduler and calls start()/stop().
CallerTid == 1

Tids == CallerTid..(CallerTid + MaxThreads)

\* No addEvent call in progress.
NoReq == [pc |-> "none", fd |-> 0, ev |-> "READ"]
NoThread == 0

\* Fiber numbers: the main fiber and the idle fiber of each thread,
\* m_rootCor, and the fiber made for the n-th schedule() call.
NoCor == 0
MainCor(t) == t
IdleCor(t) == MaxThreads + 1 + t
RootCor == 2 * (MaxThreads + 1) + 1
TaskCor(n) == RootCor + n

CorIds == 1..TaskCor(MaxTasks)

\* m_stack != nullptr: every fiber but a thread's main fiber owns a stack.
HasStack(f) == f > MaxThreads + 1

\* The fibers that run a task's entry function.
IsTaskCor(f) == f > RootCor

\* Entry functions.  A task entry either returns at once ("ret") or calls
\* Cor::GetThis()->yield() once and returns when resumed again ("yield").
Progs == {"ret", "yield"}
NoCb == [id |-> 0, prog |-> "none"]
IdleCb == [id |-> 0, prog |-> "idle"]
RunCb == [id |-> 0, prog |-> "run"]

\* An object that was never constructed.
NoObj == [state |-> "NONE", cb |-> NoCb, refs |-> 0, pos |-> "entry"]

\* Scheduler::ScheduleTask() and ScheduleTask::reset().
NoTask == [cor |-> NoCor, cb |-> NoCb, thread |-> AnyThread, sid |-> 0]

VARIABLES
    useCaller,    \* m_useCaller
    threadCount,  \* m_threadCount
    started,      \* start() was called
    m_threads,    \* the spawned threads not yet joined
    m_tasks,      \* the task queue
    m_stopping,   \* m_stopping
    m_active,     \* m_activeThreadCount
    m_idle,       \* m_idleThreadCount
    m_mutex,      \* the thread that holds m_mutex, NoThread when it is free
    cor,          \* every Cor object: m_state, m_cb, use count, position
    tl,           \* thread locals: t_cor, t_thread_cor->m_ctx, running
                  \* stack, t_scheduler == this
    upc,          \* position of the caller thread's user program
    dpc,          \* position of each thread's run()
    task,         \* run()'s local `task`
    cb_cor,       \* run()'s local `cb_cor`
    userCor,      \* the fiber handle the user program still holds
    submitted,    \* history: the schedule() calls, in order
    ran,          \* history: the entry functions each thread started, in
                  \* order
    created,      \* history: callback fibers constructed by each run()
    fault,        \* "none", or the assertion / undefined behaviour hit
    fdctx,        \* IOManager: m_fdContexts
    pending,      \* IOManager: m_pendingEventCount
    ioops,        \* history: addEvent and delEvent calls made
    ioret,        \* what the last addEvent or delEvent call returned
    ioreq         \* per thread: the addEvent call in progress, when the
                  \* call is followed lock by lock

schedVars == <<m_mutex, useCaller, threadCount, started, m_threads, m_tasks,
               m_stopping, m_active, m_idle>>
corVars == <<cor, tl>>
runVars == <<upc, dpc, task, cb_cor, userCor>>
histVars == <<submitted, ran, created>>
ioVars == <<fdctx, pending, ioops, ioret, ioreq>>
vars == <<schedVars, corVars, runVars, histVars, fault, ioVars>>

----------------------------------------------------------------------------
(* Cor: reference counting and destruction                                 *)

\* One more shared_ptr to f.
AddRef(cs, f) == [cs EXCEPT ![f].refs = @ + 1]

\* Cor::~Cor: the assertion that fails when the last handle to f is dropped.
DtorFails(cs, f) ==
    /\ cs[f].refs = 1
    /\ IF HasStack(f) THEN cs[f].state # "TERM"
       ELSE cs[f].cb # NoCb \/ cs[f].state # "RUNNING"

\* One shared_ptr to f less; the last one runs the destructor, which frees
\* the fiber unless its assertion fails.
DropRef(cs, f) ==
    IF cs[f].refs > 1 THEN [cs EXCEPT ![f].refs = @ - 1]
    ELSE IF DtorFails(cs, f) THEN cs
    ELSE [cs EXCEPT ![f].refs = 0, ![f].state = "FREED"]

\* Cor::Cor(cb, stacksize): a new fiber, READY, held by one handle.
NewCor(cs, f, cb) ==
    [cs EXCEPT ![f] = [state |-> "READY", cb |-> cb, refs |-> 1, pos |-> "entry"]]

\* Cor::Cor(): a thread's main fiber, RUNNING, held by t_thread_cor.
NewMainCor(cs, f) ==
    [cs EXCEPT ![f] = [state |-> "RUNNING", cb |-> NoCb, refs |-> 1, pos |-> "mid"]]

----------------------------------------------------------------------------
(* Cor: reset, resume, yield                                               *)

\* Cor::reset: its two assertions.
ResetAssert(cs, f) == HasStack(f) /\ cs[f].state = "TERM"

\* Cor::reset as it would be without makecontext: the context stays where
\* the fiber ended.
ResetKeepCtx(cs, f, cb) == [cs EXCEPT ![f].cb = cb, ![f].state = "READY"]

\* Cor::reset: new entry, context re-made on the same stack, READY.
ResetCor(cs, f, cb) ==
    [cs EXCEPT ![f].cb = cb, ![f].pos = "entry", ![f].state = "READY"]

\* Cor::resume: its assertion.
ResumeAssert(cs, f) == cs[f].state # "TERM" /\ cs[f].state # "RUNNING"

ResumeNoState(cs, f) == cs

\* Cor::resume: m_state = RUNNING.
ResumeCors(cs, f) == [cs EXCEPT ![f].state = "RUNNING"]

\* Cor::resume: SetThis(this); swapcontext(&t_thread_cor->m_ctx, &m_ctx)
\* saves the continuation of the running stack in the main fiber's context
\* and continues on f's stack.  Called on the main fiber itself the context
\* is saved and loaded in place and execution just continues.
ResumeTl(ls, t, f) ==
    IF f = MainCor(t)
    THEN [ls EXCEPT ![t].t_cor = f,
                    ![t].ctx = [stk |-> ls[t].on, live |-> FALSE]]
    ELSE [ls EXCEPT ![t].t_cor = f,
                    ![t].ctx = [stk |-> ls[t].on, live |-> TRUE],
                    ![t].on = f]

\* Cor::yield: its assertion.
YieldAssert(cs, f) == cs[f].state = "RUNNING" \/ cs[f].state = "TERM"

\* Cor::yield: a fiber that is not TERM becomes READY.
YieldCors(cs, f) ==
    IF cs[f].state # "TERM" THEN [cs EXCEPT ![f].state = "READY"] ELSE cs

\* Cor::yield: swapcontext(&m_ctx, &t_thread_cor->m_ctx) loads a
\* continuation that was already continued once (its frame is gone).
YieldUndefined(ls, t, f) == f # MainCor(t) /\ ~ls[t].ctx.live

\* Cor::yield: SetThis(t_thread_cor.get()); swapcontext(&m_ctx,
\* &t_thread_cor->m_ctx).  Called on the main fiber itself the context is
\* saved and loaded in place and execution just continues.
YieldTl(ls, t, f) ==
    IF f = MainCor(t)
    THEN [ls EXCEPT ![t].t_cor = MainCor(t),
                    ![t].ctx = [stk |-> ls[t].on, live |-> FALSE]]
    ELSE [ls EXCEPT ![t].t_cor = MainCor(t),
                    ![t].ctx.live = FALSE,
                    ![t].on = ls[t].ctx.stk]

\* Cor::MainFunc as it would be without `cur`: the running fiber is not held.
MainFuncEnterNoRef(cs, f) == cs

\* Cor::MainFunc: Cor::ptr cur = GetThis() holds the fiber while its entry
\* function is in progress.
MainFuncEnter(cs, f) == AddRef(cs, f)

\* Cor::MainFunc after the entry returned: m_cb = nullptr; m_state = TERM;
\* cur.reset().
MainFuncLeave(cs, f) ==
    DropRef([cs EXCEPT ![f].cb = NoCb, ![f].state = "TERM", ![f].pos = "done"], f)

----------------------------------------------------------------------------
(* Scheduler: queue                                                        *)

\* scheduleNoLock as it would be without its test: every task is queued.
ScheduleUnfiltered(q, tk) == Append(q, tk)

\* scheduleNoLock: a task with neither fiber nor callback is not queued.
ScheduleNoLock(q, tk) ==
    IF tk.cor # NoCor \/ tk.cb # NoCb THEN Append(q, tk) ELSE q

\* run() as it would be without the test on task.thread.
EligibleUnpinned(tk, t) == tk.thread = AnyThread

EligibleAny(tk, tid) == TRUE

\* run(): the test that skips a task pinned to another thread, negated.
Eligible(tk, tid) == ~(tk.thread # AnyThread /\ tk.thread # tid)

\* run() as it would be if the scan took the last task the thread may run.
LastEligible(q, tid) ==
    IF \E i \in 1..Len(q) : ~(q[i].thread # AnyThread /\ q[i].thread # tid)
    THEN CHOOSE i \in 1..Len(q) :
            /\ ~(q[i].thread # AnyThread /\ q[i].thread # tid)
            /\ \A j \in (i + 1)..Len(q) :
                   q[j].thread # AnyThread /\ q[j].thread # tid
    ELSE 0

\* run(): the scan from m_tasks.begin(); 0 when it reaches m_tasks.end().
FirstEligible(q, tid) ==
    IF \E i \in 1..Len(q) : Eligible(q[i], tid)
    THEN CHOOSE i \in 1..Len(q) :
            /\ Eligible(q[i], tid)
            /\ \A j \in 1..(i - 1) : ~Eligible(q[j], tid)
    ELSE 0

\* m_tasks.erase(it).
RemoveAt(q, i) == SubSeq(q, 1, i - 1) \o SubSeq(q, i + 1, Len(q))

\* stopping() as it would be without its test of the queue.
StoppingNoQueue(stopFlag, q, active) == stopFlag /\ active = 0

\* stopping() as it would be without the test on m_stopping.
StoppingNoFlag(stopFlag, q, active) == q = <<>> /\ active = 0

\* Scheduler::stopping().
StoppingCond(stopFlag, q, active) == stopFlag /\ q = <<>> /\ active = 0

\* The stack run() executes on: m_rootCor on the caller thread, the thread's
\* main fiber on a spawned thread.
DispStk(t) == IF t = CallerTid THEN RootCor ELSE MainCor(t)

Spawned == (CallerTid + 1)..(CallerTid + threadCount)

----------------------------------------------------------------------------
(* Initial state: the Scheduler constructor has run                        *)

InitTl(uc) ==
    [t \in Tids |->
        [t_cor |-> IF uc /\ t = CallerTid THEN MainCor(t) ELSE NoCor,
         ctx |-> [stk |-> MainCor(t), live |-> FALSE],
         on |-> MainCor(t),
         sched |-> uc /\ t = CallerTid]]

InitCor(uc) ==
    [f \in CorIds |->
        IF uc /\ f = MainCor(CallerTid)
        THEN [state |-> "RUNNING", cb |-> NoCb, refs |-> 1, pos |-> "mid"]
        ELSE IF uc /\ f = RootCor
        THEN [state |-> "READY", cb |-> RunCb, refs |-> 1, pos |-> "entry"]
        ELSE NoObj]

InitIO ==
    /\ fdctx = <<>>
    /\ pending = 0
    /\ ioops = 0
    /\ ioret = "none"
    /\ ioreq = [t \in Tids |-> NoReq]

Init ==
    /\ useCaller \in BOOLEAN
    /\ \E n \in 1..MaxThreads : threadCount = IF useCaller THEN n - 1 ELSE n
    /\ started = FALSE
    /\ m_threads = {}
    /\ m_tasks = <<>>
    /\ m_mutex = NoThread
    /\ m_stopping = FALSE
    /\ m_active = 0
    /\ m_idle = 0
    /\ cor = InitCor(useCaller)
    /\ tl = InitTl(useCaller)
    /\ upc = "user"
    /\ dpc = [t \in Tids |-> "none"]
    /\ task = [t \in Tids |-> NoTask]
    /\ cb_cor = [t \in Tids |-> NoCor]
    /\ userCor = NoCor
    /\ submitted = <<>>
    /\ ran = [t \in Tids |-> <<>>]
    /\ created = [t \in Tids |-> 0]
    /\ fault = "none"
    /\ InitIO

----------------------------------------------------------------------------
(* The user program on the caller thread: schedule()*, start(), stop()     *)

\* The threads that run a dispatch loop, and what a task may be pinned to.
Workers == Spawned \cup (IF useCaller THEN {CallerTid} ELSE {})
PinTargets == {AnyThread} \cup Workers

UserCode == fault = "none" /\ upc = "user" /\ tl[CallerTid].on = MainCor(CallerTid)

\* schedule(cb, thr) with a callback.
UserScheduleCb(prog, thr) ==
    /\ UserCode
    /\ Len(submitted) < MaxTasks
    /\ LET sid == Len(submitted) + 1
           tk == [cor |-> NoCor, cb |-> [id |-> sid, prog |-> prog],
                  thread |-> thr, sid |-> sid]
       IN /\ m_tasks' = ScheduleNoLock(m_tasks, tk)
          /\ submitted' = Append(submitted, tk)
    /\ UNCHANGED <<m_mutex, useCaller, threadCount, started, m_threads, m_stopping,
                   m_active, m_idle, corVars, runVars, ran, created,
                   fault, ioVars>>

\* Cor::ptr c(new Cor(entry)); schedule(c, thr): the queue holds a copy.
UserScheduleCor(prog, thr) ==
    /\ UserCode
    /\ Len(submitted) < MaxCorTasks
    /\ userCor = NoCor
    /\ LET sid == Len(submitted) + 1
           f == TaskCor(sid)
           tk == [cor |-> f, cb |-> NoCb, thread |-> thr, sid |-> sid]
       IN /\ cor' = AddRef(NewCor(cor, f, [id |-> sid, prog |-> prog]), f)
          /\ userCor' = f
          /\ m_tasks' = ScheduleNoLock(m_tasks, tk)
          /\ submitted' = Append(submitted, tk)
    /\ UNCHANGED <<m_mutex, useCaller, threadCount, started, m_threads, m_stopping,
                   m_active, m_idle, tl, upc, dpc, task, cb_cor, ran,
                   created, fault, ioVars>>

\* schedule(c, thr) once more with the handle the user still holds.
UserScheduleAgain(thr) ==
    /\ UserCode
    /\ Len(submitted) < MaxCorTasks
    /\ userCor # NoCor
    /\ LET sid == Len(submitted) + 1
           tk == [cor |-> userCor, cb |-> NoCb, thread |-> thr, sid |-> sid]
       IN /\ cor' = AddRef(cor, userCor)
          /\ m_tasks' = ScheduleNoLock(m_tasks, tk)
          /\ submitted' = Append(submitted, tk)
    /\ UNCHANGED <<m_mutex, useCaller, threadCount, started, m_threads, m_stopping,
                   m_active, m_idle, tl, runVars, ran, created,
                   fault, ioVars>>

\* The user's handle goes out of scope.
UserDrop ==
    /\ UserCode
    /\ userCor # NoCor
    /\ cor' = DropRef(cor, userCor)
    /\ fault' = IF DtorFails(cor, userCor) THEN "assert_dtor" ELSE fault
    /\ userCor' = NoCor
    /\ UNCHANGED <<schedVars, tl, upc, dpc, task, cb_cor, histVars,
                   ioVars>>

\* run() up to its loop, on thread t: setThis(), Cor::GetThis() (which makes
\* the main fiber of a spawned thread) and the idle fiber.  All of it is
\* local to the thread, so it is taken together with what starts run().
RunPreludeCor(cs, ls, ts) ==
    [f \in CorIds |->
        IF \E t \in ts : f = IdleCor(t)
        THEN [state |-> "READY", cb |-> IdleCb, refs |-> 1, pos |-> "entry"]
        ELSE IF \E t \in ts : f = MainCor(t) /\ ls[t].t_cor = NoCor
        THEN [state |-> "RUNNING", cb |-> NoCb, refs |-> 1, pos |-> "mid"]
        ELSE cs[f]]

RunPreludeTl(ls, ts) ==
    [t \in Tids |->
        IF t \in ts
        THEN [ls[t] EXCEPT !.sched = TRUE,
                           !.t_cor = IF @ = NoCor THEN MainCor(t) ELSE @]
        ELSE ls[t]]

\* Scheduler::start(): spawns m_threadCount threads running run().
Start ==
    /\ UserCode
    /\ ~started
    /\ started' = TRUE
    /\ IF m_stopping
       THEN UNCHANGED <<m_threads, dpc, cor, tl>>
       ELSE /\ m_threads' = Spawned
            /\ dpc' = [t \in Tids |-> IF t \in Spawned THEN "loop" ELSE dpc[t]]
            /\ cor' = RunPreludeCor(cor, tl, Spawned)
            /\ tl' = RunPreludeTl(tl, Spawned)
    /\ UNCHANGED <<m_mutex, useCaller, threadCount, m_tasks, m_stopping, m_active,
                   m_idle, upc, task, cb_cor, userCor, histVars, fault, ioVars>>

\* Scheduler::stop() up to and including m_rootCor->resume(), which enters
\* Cor::MainFunc and run() on the stack of m_rootCor.
StopBegin ==
    /\ UserCode
    /\ IF StoppingCond(m_stopping, m_tasks, m_active)
       THEN /\ upc' = "stopped"
            /\ UNCHANGED <<m_stopping, cor, tl, dpc, fault>>
       ELSE /\ m_stopping' = TRUE
            /\ IF useCaller # tl[CallerTid].sched
               THEN /\ fault' = "assert_stop_thread"
                    /\ UNCHANGED <<cor, tl, dpc, upc>>
               ELSE IF cor[RootCor].state = "NONE"
               THEN /\ upc' = "join"
                    /\ UNCHANGED <<cor, tl, dpc, fault>>
               ELSE IF ~ResumeAssert(cor, RootCor)
               THEN /\ fault' = "assert_resume"
                    /\ UNCHANGED <<cor, tl, dpc, upc>>
               ELSE /\ cor' = RunPreludeCor(
                                 MainFuncEnter(ResumeCors(cor, RootCor), RootCor),
                                 tl, {CallerTid})
                    /\ tl' = RunPreludeTl(ResumeTl(tl, CallerTid, RootCor),
                                          {CallerTid})
                    /\ dpc' = [dpc EXCEPT ![CallerTid] = "loop"]
                    /\ upc' = "in_root"
                    /\ fault' = fault
    /\ UNCHANGED <<m_mutex, useCaller, threadCount, started, m_threads, m_tasks,
                   m_active, m_idle, task, cb_cor, userCor, histVars, ioVars>>

\* Scheduler::stop() after m_rootCor->resume() returned: swap out m_threads
\* and join every thread.
StopJoin ==
    /\ fault = "none"
    /\ tl[CallerTid].on = MainCor(CallerTid)
    /\ upc \in {"join", "in_root"}
    /\ \A t \in m_threads : dpc[t] = "exited"
    /\ m_threads' = {}
    /\ upc' = "stopped"
    /\ UNCHANGED <<m_mutex, useCaller, threadCount, started, m_tasks, m_stopping,
                   m_active, m_idle, corVars, dpc, task, cb_cor, userCor,
                   histVars, fault, ioVars>>

----------------------------------------------------------------------------
(* Scheduler::run(), one dispatch loop per thread                          *)

InRun(t, at) == fault = "none" /\ dpc[t] = at /\ tl[t].on = DispStk(t)

\* run() leaves the loop: idle_cor and cb_cor go out of scope; a spawned
\* thread then ends and its t_thread_cor is destroyed.
LeaveRun(cs, t) ==
    LET c1 == DropRef(cs, IdleCor(t))
        c2 == IF cb_cor[t] # NoCor THEN DropRef(c1, cb_cor[t]) ELSE c1
    IN IF t = CallerTid THEN c2 ELSE DropRef(c2, MainCor(t))

LeaveRunFails(cs, t) ==
    \/ DtorFails(cs, IdleCor(t))
    \/ cb_cor[t] # NoCor /\ DtorFails(cs, cb_cor[t])
    \/ t # CallerTid /\ DtorFails(cs, MainCor(t))

\* The callback branch: the fiber that runs the callback is cb_cor, given
\* the callback through reset(), or a new fiber when cb_cor is empty.
CbReuse(t) == cb_cor[t] # NoCor
CbFiber(t, tk) == IF CbReuse(t) THEN cb_cor[t] ELSE TaskCor(tk.sid)
CbBind(cs, t, tk) ==
    IF CbReuse(t) THEN ResetCor(cs, cb_cor[t], tk.cb)
    ELSE NewCor(cs, TaskCor(tk.sid), tk.cb)

\* One pass of the loop that finds a task.  Under m_mutex: take the first
\* task this thread may run.  A callback is then bound to its fiber and
\* resumed; a fiber task is resumed in ResumeCheck and ResumeSwitch.
Scan(t) ==
    /\ InRun(t, "loop")
    /\ FirstEligible(m_tasks, t) > 0
    /\ LET i == FirstEligible(m_tasks, t)
           tk == m_tasks[i]
       IN IF tk.cor = NoCor /\ tk.cb = NoCb
          THEN /\ fault' = "assert_task_empty"
               /\ UNCHANGED <<m_tasks, m_active, cor, tl, dpc, task, cb_cor,
                              created>>
          ELSE IF tk.cor # NoCor /\ cor[tk.cor].state # "READY"
          THEN /\ fault' = "assert_run_ready"
               /\ UNCHANGED <<m_tasks, m_active, cor, tl, dpc, task, cb_cor,
                              created>>
          ELSE IF tk.cor # NoCor
          THEN /\ task' = [task EXCEPT ![t] = tk]
               /\ m_tasks' = RemoveAt(m_tasks, i)
               /\ m_active' = m_active + 1
               /\ dpc' = [dpc EXCEPT ![t] = "got"]
               /\ UNCHANGED <<cor, tl, cb_cor, created, fault>>
          ELSE /\ m_tasks' = RemoveAt(m_tasks, i)
               /\ m_active' = m_active + 1
               /\ IF CbReuse(t) /\ ~ResetAssert(cor, cb_cor[t])
                  THEN /\ fault' = "assert_reset"
                       /\ task' = [task EXCEPT ![t] = tk]
                       /\ UNCHANGED <<cor, tl, dpc, cb_cor, created>>
                  ELSE /\ cor' = ResumeCors(CbBind(cor, t, tk), CbFiber(t, tk))
                       /\ tl' = ResumeTl(tl, t, CbFiber(t, tk))
                       /\ created' = IF CbReuse(t) THEN created
                                     ELSE [created EXCEPT ![t] = @ + 1]
                       /\ cb_cor' = [cb_cor EXCEPT ![t] = CbFiber(t, tk)]
                       /\ dpc' = [dpc EXCEPT ![t] = "in_cb"]
                       /\ UNCHANGED <<task, fault>>
    /\ UNCHANGED <<m_mutex, useCaller, threadCount, started, m_threads, m_stopping,
                   m_idle, upc, userCor, submitted, ran, ioVars>>

\* One pass of the loop that finds no task and an idle fiber that is TERM:
\* run() returns.
ExitRun(t) ==
    /\ InRun(t, "loop")
    /\ FirstEligible(m_tasks, t) = 0
    /\ cor[IdleCor(t)].state = "TERM"
    /\ cor' = LeaveRun(cor, t)
    /\ fault' = IF LeaveRunFails(cor, t) THEN "assert_dtor" ELSE fault
    /\ cb_cor' = [cb_cor EXCEPT ![t] = NoCor]
    /\ tl' = IF t = CallerTid THEN tl ELSE [tl EXCEPT ![t].t_cor = NoCor]
    /\ dpc' = [dpc EXCEPT ![t] = IF t = CallerTid THEN "ret" ELSE "exited"]
    /\ UNCHANGED <<schedVars, upc, task, userCor, histVars, ioVars>>

\* One pass of the loop that finds no task and resumes the idle fiber:
\* ++m_idleThreadCount; idle_cor->resume(); on the idle fiber
\* Scheduler::idle() tests stopping() and either yields or returns into
\* Cor::MainFunc, which yields for the last time; --m_idleThreadCount.
IdlePass(t) ==
    /\ InRun(t, "loop")
    /\ FirstEligible(m_tasks, t) = 0
    /\ cor[IdleCor(t)].state # "TERM"
    /\ LET f == IdleCor(t)
           c0 == ResumeCors(cor, f)
           l0 == ResumeTl(tl, t, f)
           c1 == IF cor[f].pos = "entry" THEN MainFuncEnter(c0, f) ELSE c0
           g == l0[t].t_cor
           stop == StoppingCond(m_stopping, m_tasks, m_active)
           y == IF stop THEN f ELSE g
       IN IF ~ResumeAssert(cor, f)
          THEN /\ fault' = "assert_resume"
               /\ m_idle' = m_idle + 1
               /\ UNCHANGED <<cor, tl>>
          ELSE IF ~stop /\ ~YieldAssert(c1, g)
          THEN /\ fault' = "assert_yield"
               /\ m_idle' = m_idle + 1
               /\ cor' = c1
               /\ tl' = l0
          ELSE /\ cor' = IF stop THEN YieldCors(MainFuncLeave(c1, f), f)
                         ELSE [YieldCors(c1, g) EXCEPT ![f].pos = "mid"]
               /\ tl' = YieldTl(l0, t, y)
               /\ fault' = IF YieldUndefined(l0, t, y) THEN "ub_ctx" ELSE fault
               /\ m_idle' = IF YieldUndefined(l0, t, y) THEN m_idle + 1
                            ELSE (m_idle + 1) - 1
    /\ UNCHANGED <<m_mutex, useCaller, threadCount, started, m_threads, m_tasks,
                   m_stopping, m_active, runVars, histVars, ioVars>>

\* task.cor->resume(): the assertion at its head.
ResumeCheck(t) ==
    /\ InRun(t, "got")
    /\ IF ResumeAssert(cor, task[t].cor)
       THEN dpc' = [dpc EXCEPT ![t] = "resuming"] /\ fault' = fault
       ELSE dpc' = dpc /\ fault' = "assert_resume"
    /\ UNCHANGED <<schedVars, corVars, upc, task, cb_cor, userCor, histVars,
                   ioVars>>

\* task.cor->resume(): the switch.  Another thread that passed the same
\* assertion may have resumed the fiber meanwhile: two threads on one stack.
ResumeSwitch(t) ==
    /\ InRun(t, "resuming")
    /\ cor' = ResumeCors(cor, task[t].cor)
    /\ tl' = ResumeTl(tl, t, task[t].cor)
    /\ dpc' = [dpc EXCEPT ![t] = "in_task"]
    /\ fault' = IF cor[task[t].cor].state # "READY" THEN "ub_race" ELSE fault
    /\ UNCHANGED <<schedVars, upc, task, cb_cor, userCor, histVars, ioVars>>

----------------------------------------------------------------------------
(* Code running on a task fiber's stack                                    *)

\* A task fiber runs from where it was resumed to its next switch:
\* Cor::MainFunc calls the entry; the entry calls Cor::GetThis()->yield() or
\* returns, and after its return MainFunc yields for the last time.  Back in
\* run(): --m_activeThreadCount and task.reset() or cb_cor.reset().
TaskStep(t) ==
    /\ fault = "none"
    /\ IsTaskCor(tl[t].on)
    /\ LET f == tl[t].on
           first == cor[f].pos = "entry"
           c1 == IF first THEN MainFuncEnter(cor, f) ELSE cor
           yields == first /\ cor[f].cb.prog = "yield"
           g == IF yields THEN tl[t].t_cor ELSE f
           c2 == IF yields THEN [YieldCors(c1, g) EXCEPT ![f].pos = "mid"]
                 ELSE YieldCors(MainFuncLeave(c1, f), f)
           h == IF dpc[t] = "in_cb" THEN cb_cor[t] ELSE task[t].cor
       IN /\ ran' = IF first THEN [ran EXCEPT ![t] = Append(@, cor[f].cb.id)]
                    ELSE ran
          /\ IF yields /\ ~YieldAssert(c1, g)
             THEN /\ fault' = "assert_yield"
                  /\ cor' = c1
                  /\ UNCHANGED <<tl, m_active, dpc, task, cb_cor>>
             ELSE IF YieldUndefined(tl, t, g)
             THEN /\ fault' = "ub_ctx"
                  /\ cor' = c2
                  /\ tl' = YieldTl(tl, t, g)
                  /\ UNCHANGED <<m_active, dpc, task, cb_cor>>
             ELSE /\ tl' = YieldTl(tl, t, g)
                  /\ m_active' = m_active - 1
                  /\ cor' = DropRef(c2, h)
                  /\ fault' = IF DtorFails(c2, h) THEN "assert_dtor" ELSE fault
                  /\ task' = [task EXCEPT ![t] = NoTask]
                  /\ cb_cor' = [cb_cor EXCEPT ![t] = NoCor]
                  /\ dpc' = [dpc EXCEPT ![t] = "loop"]
    /\ UNCHANGED <<m_mutex, useCaller, threadCount, started, m_threads, m_tasks,
                   m_stopping, m_idle, upc, userCor, submitted, created,
                   ioVars>>

\* run() returned into Cor::MainFunc of m_rootCor: TERM and the last yield.
RootFinish ==
    /\ InRun(CallerTid, "ret")
    /\ cor' = YieldCors(MainFuncLeave(cor, RootCor), RootCor)
    /\ tl' = YieldTl(tl, CallerTid, RootCor)
    /\ fault' = IF YieldUndefined(tl, CallerTid, RootCor) THEN "ub_ctx" ELSE fault
    /\ dpc' = [dpc EXCEPT ![CallerTid] = "exited"]
    /\ UNCHANGED <<schedVars, upc, task, cb_cor, userCor, histVars, ioVars>>

----------------------------------------------------------------------------
(* Specifications: the scheduler under three user programs                 *)

\* What the scheduler's own threads do, and start() and stop().
Core ==
    \/ Start
    \/ StopBegin
    \/ StopJoin
    \/ \E t \in Tids : Scan(t)
    \/ \E t \in Tids : ExitRun(t)
    \/ \E t \in Tids : IdlePass(t)
    \/ \E t \in Tids : TaskStep(t)
    \/ RootFinish

\* The user schedules callbacks for any thread; a callback may yield.
Next ==
    \/ \E prog \in Progs : UserScheduleCb(prog, AnyThread)
    \/ Core

Spec == Init /\ [][Next]_vars

\* The user schedules callbacks that return, pinned to a worker or not.
NextPin ==
    \/ \E thr \in PinTargets : UserScheduleCb("ret", thr)
    \/ Core

SpecPin == Init /\ [][NextPin]_vars

\* The user schedules fibers it made, a handle possibly more than once.
NextCor ==
    \/ \E prog \in Progs : UserScheduleCor(prog, AnyThread)
    \/ UserScheduleAgain(AnyThread)
    \/ UserDrop
    \/ \E t \in Tids : ResumeCheck(t)
    \/ \E t \in Tids : ResumeSwitch(t)
    \/ Core

SpecCor == Init /\ [][NextCor]_vars

\* Scheduler::stop() called on a thread t other than the one that made the
\* scheduler: by a task in the middle of its run on worker t, or by a thread
\* that is none of the scheduler's.  Taken up to and including
\* m_rootCor->resume(); what thread t does on the stack of m_rootCor after
\* that is not followed.
StopOnThread(t) ==
    /\ fault = "none"
    /\ t # CallerTid
    /\ \/ IsTaskCor(tl[t].on)
       \/ useCaller /\ t \notin Spawned /\ tl[t].on = MainCor(t)
    /\ IF StoppingCond(m_stopping, m_tasks, m_active)
       THEN UNCHANGED <<m_stopping, cor, tl, dpc, fault>>
       ELSE /\ m_stopping' = TRUE
            /\ IF useCaller # tl[t].sched
               THEN /\ fault' = "assert_stop_thread"
                    /\ UNCHANGED <<cor, tl, dpc>>
               ELSE IF ~ResumeAssert(cor, RootCor)
               THEN /\ fault' = "assert_resume"
                    /\ UNCHANGED <<cor, tl, dpc>>
               ELSE /\ cor' = MainFuncEnter(ResumeCors(cor, RootCor), RootCor)
                    /\ tl' = ResumeTl(tl, t, RootCor)
                    /\ dpc' = [dpc EXCEPT ![t] = "nested"]
                    /\ fault' = fault
    /\ UNCHANGED <<m_mutex, useCaller, threadCount, started, m_threads, m_tasks,
                   m_active, m_idle, upc, task, cb_cor, userCor, histVars,
                   ioVars>>

\* schedule(nullptr): a task with an empty fiber handle and an empty
\* callback.  The call is recorded in submitted.
UserScheduleNull ==
    /\ UserCode
    /\ Len(submitted) < MaxTasks
    /\ LET tk == [cor |-> NoCor, cb |-> NoCb, thread |-> AnyThread,
                  sid |-> Len(submitted) + 1]
       IN /\ m_tasks' = ScheduleNoLock(m_tasks, tk)
          /\ submitted' = Append(submitted, tk)
    /\ UNCHANGED <<m_mutex, useCaller, threadCount, started, m_threads,
                   m_stopping, m_active, m_idle, corVars, runVars, ran,
                   created, fault, ioVars>>

\* The user schedules callbacks that return, and null tasks.
NextNull ==
    \/ UserScheduleCb("ret", AnyThread)
    \/ UserScheduleNull
    \/ Core

SpecNull == Init /\ [][NextNull]_vars

\* The user schedules callbacks, and stop() may come from any thread.
NextStop ==
    \/ \E prog \in Progs : UserScheduleCb(prog, AnyThread)
    \/ \E t \in Tids : StopOnThread(t)
    \/ Core

SpecStop == Init /\ [][NextStop]_vars

----------------------------------------------------------------------------
(* A program that uses Cor directly on one thread, without a scheduler     *)

\* Any code of the program, on the thread's own stack or on a fiber's.
FiberCode == fault = "none" /\ upc = "fiber"

\* The fibers the program has constructed.
Made == {f \in CorIds : IsTaskCor(f) /\ cor[f].state # "NONE"}

\* An entry function that may call any of resume, yield and reset.
AnyCb(f) == [id |-> f - RootCor, prog |-> "any"]

\* Cor::GetThis() was called once; nothing else has happened.
InitFiber ==
    /\ useCaller = FALSE
    /\ threadCount = 1
    /\ started = FALSE
    /\ m_threads = {}
    /\ m_tasks = <<>>
    /\ m_mutex = NoThread
    /\ m_stopping = FALSE
    /\ m_active = 0
    /\ m_idle = 0
    /\ cor = NewMainCor(InitCor(FALSE), MainCor(CallerTid))
    /\ tl = [InitTl(FALSE) EXCEPT ![CallerTid].t_cor = MainCor(CallerTid)]
    /\ upc = "fiber"
    /\ dpc = [t \in Tids |-> "none"]
    /\ task = [t \in Tids |-> NoTask]
    /\ cb_cor = [t \in Tids |-> NoCor]
    /\ userCor = NoCor
    /\ submitted = <<>>
    /\ ran = [t \in Tids |-> <<>>]
    /\ created = [t \in Tids |-> 0]
    /\ fault = "none"
    /\ InitIO

\* new Cor(cb).
FiberNew ==
    /\ FiberCode
    /\ Cardinality(Made) < MaxFibers
    /\ LET f == TaskCor(Cardinality(Made) + 1)
       IN cor' = NewCor(cor, f, AnyCb(f))
    /\ UNCHANGED <<schedVars, tl, runVars, histVars, fault, ioVars>>

\* f->resume(); a fiber resumed for the first time enters Cor::MainFunc.
FiberResume(f) ==
    /\ FiberCode
    /\ cor[f].state \notin {"NONE", "FREED"}
    /\ IF ~ResumeAssert(cor, f)
       THEN /\ fault' = "assert_resume"
            /\ UNCHANGED <<cor, tl>>
       ELSE /\ cor' = IF cor[f].pos = "entry"
                      THEN [MainFuncEnter(ResumeCors(cor, f), f)
                               EXCEPT ![f].pos = "mid"]
                      ELSE ResumeCors(cor, f)
            /\ tl' = ResumeTl(tl, CallerTid, f)
            /\ fault' = fault
    /\ UNCHANGED <<schedVars, runVars, histVars, ioVars>>

\* Cor::GetThis()->yield().
FiberYield ==
    /\ FiberCode
    /\ LET g == tl[CallerTid].t_cor
       IN IF ~YieldAssert(cor, g)
          THEN /\ fault' = "assert_yield"
               /\ UNCHANGED <<cor, tl>>
          ELSE /\ cor' = YieldCors(cor, g)
               /\ tl' = YieldTl(tl, CallerTid, g)
               /\ fault' = IF YieldUndefined(tl, CallerTid, g) THEN "ub_ctx"
                           ELSE fault
    /\ UNCHANGED <<schedVars, runVars, histVars, ioVars>>

\* The entry function of the fiber whose stack is running returns into
\* Cor::MainFunc: TERM and the last yield.
FiberReturn ==
    /\ FiberCode
    /\ HasStack(tl[CallerTid].on)
    /\ LET f == tl[CallerTid].on
       IN /\ cor' = YieldCors(MainFuncLeave(cor, f), f)
          /\ tl' = YieldTl(tl, CallerTid, f)
          /\ fault' = IF YieldUndefined(tl, CallerTid, f) THEN "ub_ctx"
                      ELSE fault
    /\ UNCHANGED <<schedVars, runVars, histVars, ioVars>>

\* The entry function given to reset(), another one than the constructor's.
ResetCb(f) == [id |-> f - RootCor + MaxFibers, prog |-> "any"]

\* f->reset(cb).
FiberReset(f) ==
    /\ FiberCode
    /\ cor[f].state \notin {"NONE", "FREED"}
    /\ IF ~ResetAssert(cor, f)
       THEN /\ fault' = "assert_reset"
            /\ cor' = cor
       ELSE /\ cor' = ResetCor(cor, f, ResetCb(f))
            /\ fault' = fault
    /\ UNCHANGED <<schedVars, tl, runVars, histVars, ioVars>>

NextFiber ==
    \/ FiberNew
    \/ \E f \in CorIds : FiberResume(f)
    \/ FiberYield
    \/ FiberReturn
    \/ \E f \in CorIds : FiberReset(f)

SpecFiber == InitFiber /\ [][NextFiber]_vars

----------------------------------------------------------------------------
(* IOManager: the fd contexts                                              *)

\* IOManager::IOManager: contextResize(32).
InitTableSize == 32

\* The fds the program uses: one inside the initial table, one beyond it.
Fds == {3, 40}

\* The two events of IOManager::Event; `events` is the set of the bits set.
Events == {"READ", "WRITE"}

\* What epoll_ctl returns.
EpollResults == {0, -1}

\* An EventContext with scheduler, cor and cb empty.  `scheduler` is TRUE
\* when it points to this IOManager, FALSE when it is null.
NoSlot == [scheduler |-> FALSE, cor |-> NoCor, cb |-> NoCb]

\* new FdContext; fd = i.
NewFdContext(i) == [fd |-> i, events |-> {}, read |-> NoSlot, write |-> NoSlot]

\* contextResize: m_fdContexts.resize(size) and a new context in every
\* empty place.  The context of fd i is tb[i + 1].
ContextResize(tb, size) ==
    [i \in 1..size |-> IF i <= Len(tb) THEN tb[i] ELSE NewFdContext(i - 1)]

\* FdContext::getEventContext, for READ and WRITE.
GetEventContext(c, ev) == IF ev = "READ" THEN c.read ELSE c.write

\* Assignment through the reference getEventContext returns.
SetEventContext(c, ev, slot) ==
    IF ev = "READ" THEN [c EXCEPT !.read = slot] ELSE [c EXCEPT !.write = slot]

\* triggerEvent as it would be without clearing the bit.
ClearNothing(evs, ev) == evs

\* events & ~event.
ClearEvent(evs, ev) == evs \ {ev}

\* resetEventContext as it would be without ctx.cb = nullptr.
ResetKeepCb(slot) == [slot EXCEPT !.scheduler = FALSE, !.cor = NoCor]

\* FdContext::resetEventContext.
ResetEventContext(slot) ==
    [slot EXCEPT !.scheduler = FALSE, !.cor = NoCor, !.cb = NoCb]

\* The threads that call addEvent and delEvent.
IoCallers == {CallerTid} \cup Spawned

\* IOManager(1, use_caller) has been constructed: the Scheduler
\* constructor, contextResize(32) and start().
InitIOManager ==
    /\ useCaller \in BOOLEAN
    /\ threadCount = IF useCaller THEN 0 ELSE 1
    /\ started = TRUE
    /\ m_threads = Spawned
    /\ m_tasks = <<>>
    /\ m_mutex = NoThread
    /\ m_stopping = FALSE
    /\ m_active = 0
    /\ m_idle = 0
    /\ cor = RunPreludeCor(InitCor(useCaller), InitTl(useCaller), Spawned)
    /\ tl = RunPreludeTl(InitTl(useCaller), Spawned)
    /\ upc = "io"
    /\ dpc = [t \in Tids |-> IF t \in Spawned THEN "loop" ELSE "none"]
    /\ task = [t \in Tids |-> NoTask]
    /\ cb_cor = [t \in Tids |-> NoCor]
    /\ userCor = NoCor
    /\ submitted = <<>>
    /\ ran = [t \in Tids |-> <<>>]
    /\ created = [t \in Tids |-> 0]
    /\ fault = "none"
    /\ fdctx = ContextResize(<<>>, InitTableSize)
    /\ pending = 0
    /\ ioops = 0
    /\ ioret = "none"
    /\ ioreq = [t \in Tids |-> NoReq]

IoCode == fault = "none" /\ upc = "io"

EpollIgnored(rt) == FALSE

\* if (rt) after epoll_ctl: a non-zero return is a failure.
EpollFailed(rt) == rt # 0

\* addEvent(fd, event, cb) called on thread t; rt is what epoll_ctl returns.
\* The table is grown when fd is beyond it; the rest runs under the
\* context's mutex.
AddEvent(t, fd, ev, withCb, rt) ==
    /\ IoCode
    /\ ioops < MaxIoOps
    /\ ioops' = ioops + 1
    /\ LET tb == IF Len(fdctx) > fd THEN fdctx
                 ELSE ContextResize(fdctx, (fd * 3) \div 2)
           c == tb[fd + 1]
           g == IF tl[t].t_cor = NoCor THEN MainCor(t) ELSE tl[t].t_cor
           cs == IF tl[t].t_cor = NoCor THEN NewMainCor(cor, MainCor(t))
                 ELSE cor
           slot == [scheduler |-> tl[t].sched,
                    cor |-> IF withCb THEN NoCor ELSE g,
                    cb |-> IF withCb THEN [id |-> ioops + 1, prog |-> "ret"]
                           ELSE NoCb]
           c1 == SetEventContext([c EXCEPT !.events = @ \cup {ev}], ev, slot)
       IN IF ev \in c.events
          THEN /\ fault' = "assert_add_twice"
               /\ fdctx' = tb
               /\ UNCHANGED <<pending, cor, tl, ioret>>
          ELSE IF EpollFailed(rt)
          THEN /\ fdctx' = tb
               /\ ioret' = "-1"
               /\ UNCHANGED <<pending, cor, tl, fault>>
          ELSE IF GetEventContext(c, ev) # NoSlot
          THEN /\ fault' = "assert_slot_in_use"
               /\ pending' = pending + 1
               /\ fdctx' = [tb EXCEPT ![fd + 1].events = @ \cup {ev}]
               /\ UNCHANGED <<cor, tl, ioret>>
          ELSE /\ pending' = pending + 1
               /\ ioret' = "0"
               /\ fdctx' = [tb EXCEPT ![fd + 1] = c1]
               /\ cor' = IF withCb THEN cor ELSE AddRef(cs, g)
               /\ tl' = IF withCb THEN tl ELSE [tl EXCEPT ![t].t_cor = g]
               /\ fault' = IF ~withCb /\ cs[g].state # "RUNNING"
                           THEN "assert_add_running" ELSE fault
    /\ UNCHANGED <<schedVars, runVars, histVars, ioreq>>

\* delEvent(fd, event); rt is what epoll_ctl returns.
DelEvent(fd, ev, rt) ==
    /\ IoCode
    /\ ioops < MaxIoOps
    /\ ioops' = ioops + 1
    /\ IF Len(fdctx) <= fd
       THEN ioret' = "false" /\ UNCHANGED <<fdctx, pending, cor>>
       ELSE LET c == fdctx[fd + 1]
                slot == GetEventContext(c, ev)
                c1 == SetEventContext([c EXCEPT !.events = ClearEvent(@, ev)], ev,
                                      ResetEventContext(slot))
            IN IF ev \notin c.events \/ EpollFailed(rt)
               THEN ioret' = "false" /\ UNCHANGED <<fdctx, pending, cor>>
               ELSE /\ pending' = pending - 1
                    /\ ioret' = "true"
                    /\ fdctx' = [fdctx EXCEPT ![fd + 1] = c1]
                    /\ cor' = IF slot.cor # NoCor THEN DropRef(cor, slot.cor)
                              ELSE cor
    /\ UNCHANGED <<schedVars, tl, runVars, histVars, fault, ioreq>>

\* FdContext::triggerEvent(event) on the context of fd, called with the
\* context's mutex held.  schedule() through a null scheduler pointer is
\* undefined.
TriggerEvent(fd, ev) ==
    /\ IoCode
    /\ Len(fdctx) > fd
    /\ LET c == fdctx[fd + 1]
           slot == GetEventContext(c, ev)
           tk == [cor |-> IF slot.cb # NoCb THEN NoCor ELSE slot.cor,
                  cb |-> slot.cb, thread |-> AnyThread,
                  sid |-> Len(submitted) + 1]
           c1 == SetEventContext([c EXCEPT !.events = ClearEvent(@, ev)], ev,
                                 ResetEventContext(slot))
       IN IF ev \notin c.events
          THEN /\ fault' = "assert_trigger"
               /\ UNCHANGED <<fdctx, m_tasks, submitted>>
          ELSE IF ~slot.scheduler
          THEN /\ fault' = "ub_null_scheduler"
               /\ fdctx' = [fdctx EXCEPT ![fd + 1].events = ClearEvent(@, ev)]
               /\ UNCHANGED <<m_tasks, submitted>>
          ELSE /\ m_tasks' = ScheduleNoLock(m_tasks, tk)
               /\ submitted' = Append(submitted, tk)
               /\ fdctx' = [fdctx EXCEPT ![fd + 1] = c1]
               /\ fault' = fault
    /\ UNCHANGED <<m_mutex, useCaller, threadCount, started, m_threads, m_stopping,
                   m_active, m_idle, corVars, runVars, ran, created, pending,
                   ioops, ioret, ioreq>>

\* idle() handling one delivered fd x event pair: under the context's
\* mutex, an event that is registered is triggered, any other is ignored.
Readiness(fd, ev) ==
    /\ IoCode
    /\ Len(fdctx) > fd
    /\ IF ev \in fdctx[fd + 1].events THEN TriggerEvent(fd, ev)
       ELSE UNCHANGED vars

\* The fds of a program whose addEvent calls race for the growth of the
\* table: both beyond the initial table, with different new sizes.
GrowFds == {34, 52}

\* addEvent(fd, ev, cb) on thread t, the lookup under the read lock:
\* fd_ctx = m_fdContexts[fd] when the table is large enough.
AddLookup(t, fd, ev) ==
    /\ IoCode
    /\ ioops < MaxIoOps
    /\ ioreq[t] = NoReq
    /\ ioops' = ioops + 1
    /\ ioreq' = [ioreq EXCEPT ![t] =
                   [pc |-> IF Len(fdctx) > fd THEN "found" ELSE "grow",
                    fd |-> fd, ev |-> ev]]
    /\ UNCHANGED <<schedVars, corVars, runVars, histVars, fault, fdctx,
                   pending, ioret>>

\* addEvent, the else branch: the write lock, contextResize(fd * 1.5) with
\* no second look at the size, fd_ctx = m_fdContexts[fd].
AddGrow(t) ==
    /\ IoCode
    /\ ioreq[t].pc = "grow"
    /\ fdctx' = ContextResize(fdctx, (ioreq[t].fd * 3) \div 2)
    /\ ioreq' = [ioreq EXCEPT ![t].pc = "found"]
    /\ UNCHANGED <<schedVars, corVars, runVars, histVars, fault, pending,
                   ioops, ioret>>

\* addEvent with a callback, from the context's mutex to the return, through
\* the pointer fd_ctx.  A context that a later resize has dropped from the
\* table is still written through the pointer; the table does not change.
AddRegister(t, rt) ==
    /\ IoCode
    /\ ioreq[t].pc = "found"
    /\ ioreq' = [ioreq EXCEPT ![t] = NoReq]
    /\ LET fd == ioreq[t].fd
           ev == ioreq[t].ev
           inTable == Len(fdctx) > fd
           c == IF inTable THEN fdctx[fd + 1] ELSE NewFdContext(fd)
           slot == [scheduler |-> tl[t].sched, cor |-> NoCor,
                    cb |-> [id |-> ioops, prog |-> "ret"]]
           c1 == SetEventContext([c EXCEPT !.events = @ \cup {ev}], ev, slot)
       IN IF ev \in c.events
          THEN /\ fault' = "assert_add_twice"
               /\ UNCHANGED <<fdctx, pending, ioret>>
          ELSE IF EpollFailed(rt)
          THEN /\ ioret' = "-1"
               /\ UNCHANGED <<fdctx, pending, fault>>
          ELSE /\ pending' = pending + 1
               /\ ioret' = "0"
               /\ fdctx' = IF inTable THEN [fdctx EXCEPT ![fd + 1] = c1]
                            ELSE fdctx
               /\ fault' = fault
    /\ UNCHANGED <<schedVars, corVars, runVars, histVars, ioops>>

NextGrow ==
    \/ \E t \in IoCallers, fd \in GrowFds, ev \in Events : AddLookup(t, fd, ev)
    \/ \E t \in IoCallers : AddGrow(t)
    \/ \E t \in IoCallers, rt \in EpollResults : AddRegister(t, rt)

SpecGrow == InitIOManager /\ [][NextGrow]_vars

NextIO ==
    \/ \E t \in IoCallers, fd \in Fds, ev \in Events, withCb \in BOOLEAN,
          rt \in EpollResults : AddEvent(t, fd, ev, withCb, rt)
    \/ \E fd \in Fds, ev \in Events, rt \in EpollResults : DelEvent(fd, ev, rt)
    \/ \E fd \in Fds, ev \in Events : TriggerEvent(fd, ev)
    \/ \E fd \in Fds, ev \in Events : Readiness(fd, ev)

SpecIO == InitIOManager /\ [][NextIO]_vars

----------------------------------------------------------------------------
(* Properties of the scheduler                                             *)

\* How many times the entry function of submission id was started.
RanCount(id) ==
    Cardinality({p \in Tids \X (1..MaxTasks) :
                    /\ p[2] <= Len(ran[p[1]])
                    /\ ran[p[1]][p[2]] = id})

\* Every submission is a callback for any thread that returns without
\* yielding.
OnlyPlainCallbacks ==
    \A i \in 1..Len(submitted) :
        /\ submitted[i].cor = NoCor
        /\ submitted[i].cb.prog = "ret"
        /\ submitted[i].thread = AnyThread

\* C1: once stop() has returned on a started scheduler whose tasks were
\* unpinned callbacks that do not yield, every callback submitted before
\* stop() was started exactly once, the queue is empty, no thread is
\* executing a task, every spawned thread has ended and was joined, and
\* stopping() is true.  With use_caller the same holds of the callbacks, the
\* queue and the count once the dispatch loop that stop() runs on the
\* caller thread has ended.
C1_StopDrains ==
    /\ (upc = "stopped" /\ started /\ OnlyPlainCallbacks) =>
          /\ \A i \in 1..Len(submitted) : RanCount(i) = 1
          /\ m_tasks = <<>>
          /\ m_active = 0
          /\ m_threads = {}
          /\ \A t \in Spawned : dpc[t] = "exited"
          /\ StoppingCond(m_stopping, m_tasks, m_active)
    /\ (useCaller /\ dpc[CallerTid] = "ret" /\ OnlyPlainCallbacks) =>
          /\ \A i \in 1..Len(submitted) : RanCount(i) = 1
          /\ StoppingCond(m_stopping, m_tasks, m_active)

\* stop() has returned after two threads shared the work.
C1_Witness ==
    /\ upc = "stopped" /\ started /\ OnlyPlainCallbacks
    /\ Len(submitted) >= 2
    /\ \E t1, t2 \in Spawned : t1 # t2 /\ ran[t1] # <<>> /\ ran[t2] # <<>>

\* C2: with use_caller the dispatch loop on m_rootCor ends and gives control
\* back to stop() on the caller's own stack, which then joins and returns.
C2_RootReturnsToStop ==
    (useCaller /\ dpc[CallerTid] = "exited") =>
        /\ tl[CallerTid].on = MainCor(CallerTid)
        /\ fault # "ub_ctx"

\* C3: unpinned tasks leave the queue in the order they were inserted, so
\* a single worker starts them in submission order, all of them by the
\* time its dispatch loop has ended, and the queue is then empty.
C3_Fifo ==
    /\ \A i \in 1..Len(m_tasks) :
          m_tasks[i].sid = Len(submitted) - Len(m_tasks) + i
    /\ \A w \in Workers :
          Workers = {w} =>
              /\ \A k \in 1..Len(ran[w]) : ran[w][k] = k
              /\ dpc[w] \in {"ret", "exited"} =>
                    /\ Len(ran[w]) = Len(submitted)
                    /\ m_tasks = <<>>

\* A single worker has run three tasks and its loop has ended.
C3_Witness ==
    /\ \E w \in Workers : Workers = {w} /\ dpc[w] \in {"ret", "exited"}
                          /\ Len(ran[w]) >= 3
    /\ fault = "none"

\* C7: no destructor of a fiber with a stack runs while the fiber is READY
\* or RUNNING: such a fiber is still held by somebody, also after the
\* dispatch loop dropped its own handle.
C7_DestroyedOnlyTerm ==
    /\ fault # "assert_dtor"
    /\ \A f \in CorIds :
          (HasStack(f) /\ cor[f].state \in {"READY", "RUNNING"}) =>
              cor[f].refs > 0

\* A callback fiber that yielded is READY and alive although run() has
\* dropped cb_cor, while a fiber that ended was destroyed.
C7_Witness ==
    /\ fault = "none"
    /\ \E f \in CorIds, t \in Tids :
          /\ IsTaskCor(f) /\ cor[f].state = "READY" /\ cor[f].pos = "mid"
          /\ cor[f].refs = 1
          /\ dpc[t] = "loop" /\ cb_cor[t] = NoCor
          /\ \E k \in 1..Len(ran[t]) : TaskCor(ran[t][k]) = f
    /\ \E g \in CorIds : IsTaskCor(g) /\ cor[g].state = "FREED"

\* C5: a resume() whose fiber has yielded or ended has returned to its
\* caller: stop()'s resume of m_rootCor to the caller's own stack, a
\* dispatch loop's resume of a task to the dispatch loop.
C5_ResumeReturns ==
    /\ (upc = "in_root" /\ cor[RootCor].state # "RUNNING") =>
          tl[CallerTid].on = MainCor(CallerTid)
    /\ \A t \in Tids :
          (dpc[t] = "in_cb" /\ cor[cb_cor[t]].state # "RUNNING") =>
              tl[t].on = DispStk(t)

\* C9: a dispatch loop constructs at most one callback fiber and gives
\* every later callback to it through reset().
C9_OneCallbackFiber == \A t \in Tids : created[t] <= 1

\* C4: a task pinned to a thread is only ever started by that thread, and
\* tasks pinned to the same thread are started in submission order.
C4_Pinned ==
    /\ \A t \in Tids : \A k \in 1..Len(ran[t]) :
          submitted[ran[t][k]].thread \in {AnyThread, t}
    /\ \A t \in Tids :
          dpc[t] = "in_cb" =>
              submitted[cor[cb_cor[t]].cb.id].thread \in {AnyThread, t}
    /\ \A t \in Tids : \A j, k \in 1..Len(ran[t]) :
          (/\ j < k
           /\ submitted[ran[t][j]].thread = t
           /\ submitted[ran[t][k]].thread = t) => ran[t][j] < ran[t][k]

\* A thread has run two tasks pinned to it, around a task pinned to another
\* thread that was submitted between them.
C4_Witness ==
    /\ fault = "none"
    /\ \E t, u \in Tids : \E i, j, k \in 1..Len(submitted) :
          /\ t # u /\ i < j /\ j < k
          /\ submitted[i].thread = t
          /\ submitted[j].thread = u
          /\ submitted[k].thread = t
          /\ \E a, b \in 1..Len(ran[t]) : ran[t][a] = i /\ ran[t][b] = k
          /\ \E c \in 1..Len(ran[u]) : ran[u][c] = j

\* C8: no fiber is the running stack of two threads at once, also when its
\* handle was scheduled twice.
C8_OneRunner ==
    \A f \in CorIds :
        IsTaskCor(f) => Cardinality({t \in Tids : tl[t].on = f}) <= 1

----------------------------------------------------------------------------
(* Properties of Cor                                                       *)

\* The changes of m_state of a fiber with a stack: resume, yield, the return
\* of the entry function, reset; construction and destruction.
StackStep(a, b) ==
    \/ a = b
    \/ <<a, b>> \in {<<"NONE", "READY">>, <<"READY", "RUNNING">>,
                     <<"RUNNING", "READY">>, <<"RUNNING", "TERM">>,
                     <<"TERM", "READY">>, <<"TERM", "FREED">>}

\* A thread's main fiber is RUNNING from construction to destruction.
MainStep(a, b) ==
    \/ a = b
    \/ <<a, b>> \in {<<"NONE", "RUNNING">>, <<"RUNNING", "FREED">>}

\* C6: the state of a fiber with a stack changes only READY -> RUNNING,
\* RUNNING -> READY, RUNNING -> TERM and TERM -> READY, and a thread's main
\* fiber stays RUNNING, whatever resume, yield and reset calls are made.
C6_Lifecycle ==
    [][\A f \in CorIds :
          IF HasStack(f) THEN StackStep(cor[f].state, cor'[f].state)
          ELSE MainStep(cor[f].state, cor'[f].state)]_vars

----------------------------------------------------------------------------
(* Properties of the IOManager                                             *)

\* An event slot holds a fiber or a callback.
Populated(slot) == slot.cor # NoCor \/ slot.cb # NoCb

\* C10: in every fd context and for READ and for WRITE, the bit is set in
\* events exactly when the slot is populated, a populated slot holds a
\* fiber or a callback but not both, and a slot whose bit is not set has
\* scheduler, fiber and callback empty.
C10_BitIffSlot ==
    fault = "none" =>
        \A i \in 1..Len(fdctx) : \A ev \in Events :
            LET slot == GetEventContext(fdctx[i], ev)
            IN /\ ev \in fdctx[i].events <=> Populated(slot)
               /\ ~(slot.cor # NoCor /\ slot.cb # NoCb)
               /\ ev \notin fdctx[i].events => slot = NoSlot

\* A context beyond the initial table has a callback waiting for READ and a
\* fiber waiting for WRITE, after a trigger has scheduled an occupant and
\* emptied its slot.
C10_Witness ==
    /\ fault = "none"
    /\ \E i \in 1..Len(fdctx) :
          /\ i > InitTableSize
          /\ fdctx[i].events = {"READ", "WRITE"}
          /\ fdctx[i].read.cb # NoCb
          /\ fdctx[i].write.cor # NoCor
    /\ m_tasks # <<>>

\* The number of event bits set in the contexts tb[1..n].
RECURSIVE BitsSet(_, _)
BitsSet(tb, n) ==
    IF n = 0 THEN 0 ELSE Cardinality(tb[n].events) + BitsSet(tb, n - 1)

\* C11: m_pendingEventCount equals the number of event bits set over all
\* fd contexts, after any addEvent, delEvent and triggerEvent calls.
C11_PendingIsBitCount ==
    fault = "none" => pending = BitsSet(fdctx, Len(fdctx))

\* The task triggerEvent schedules for the occupant of a slot.
OccupantTask(slot, q) ==
    Append(q, [cor |-> IF slot.cb # NoCb THEN NoCor ELSE slot.cor,
               cb |-> slot.cb, thread |-> AnyThread,
               sid |-> Len(submitted) + 1])

\* C12: a task is appended to the queue only by the trigger of an event
\* whose bit is set; that step clears the bit, empties the slot and appends
\* the occupant once, so readiness for an event whose bit is clear schedules
\* nothing; a bit becomes set only in an addEvent call; no callback
\* registration is scheduled twice.
C12_OneShot ==
    [][/\ m_tasks' # m_tasks =>
            \E i \in 1..Len(fdctx) : \E ev \in Events :
                /\ ev \in fdctx[i].events
                /\ ev \notin fdctx'[i].events
                /\ GetEventContext(fdctx'[i], ev) = NoSlot
                /\ m_tasks' = OccupantTask(GetEventContext(fdctx[i], ev),
                                           m_tasks)
       /\ \A i \in 1..Len(fdctx') : \A ev \in Events :
             (ev \in fdctx'[i].events
                /\ (i > Len(fdctx) \/ ev \notin fdctx[i].events))
             => ioops' = ioops + 1
       /\ \A j, k \in 1..Len(submitted') :
             (j < k /\ submitted'[j].cb # NoCb)
             => submitted'[j].cb # submitted'[k].cb]_vars

\* The callback registered for READ on fd 3 was triggered: it is in the
\* queue once, the bit is clear and the slot is empty, and nothing else was
\* registered.
C12_Witness ==
    /\ fault = "none"
    /\ ioops = 1
    /\ Len(m_tasks) = 1
    /\ m_tasks[1].cb.id = 1
    /\ fdctx[4].events = {}
    /\ fdctx[4].read = NoSlot

\* The context of fd in table tb; a descriptor beyond the table has no
\* context yet, which addEvent creates empty.
CtxOf(tb, fd) == IF Len(tb) > fd THEN tb[fd + 1] ELSE NewFdContext(fd)

\* C13: an addEvent whose epoll_ctl fails returns -1 and leaves the pending
\* count, every context's event set and slots, and the task queue as they
\* were; an addEvent whose epoll_ctl succeeds returns 0, raises the pending
\* count by one and sets the bit.
C13_AddEventFailure ==
    [][\A t \in IoCallers, fd \in Fds, ev \in Events, withCb \in BOOLEAN :
         /\ AddEvent(t, fd, ev, withCb, -1) /\ fault' = "none"
              => /\ ioret' = "-1"
                 /\ pending' = pending
                 /\ \A g \in Fds : CtxOf(fdctx', g) = CtxOf(fdctx, g)
                 /\ m_tasks' = m_tasks
                 /\ submitted' = submitted
         /\ AddEvent(t, fd, ev, withCb, 0) /\ fault' = "none"
              => /\ ioret' = "0"
                 /\ pending' = pending + 1
                 /\ CtxOf(fdctx', fd).events = CtxOf(fdctx, fd).events \cup {ev}
                 /\ ev \notin CtxOf(fdctx, fd).events]_vars

\* A successful registration followed by a failed one.
C13_Witness ==
    /\ fault = "none"
    /\ ioops = 2
    /\ ioret = "-1"
    /\ pending = 1
    /\ fdctx[4].events = {"READ"}
    /\ Len(m_tasks) = 0
\* What a delEvent(fd, ev) that removes the registration does: exactly that
\* bit cleared, exactly that slot emptied, the other bit and slot and every
\* other context as they were, the pending count one lower, true returned,
\* nothing appended to the task queue.
DelRemoves(fd, ev) ==
    /\ ioret' = "true"
    /\ pending' = pending - 1
    /\ fdctx'[fd + 1].events = fdctx[fd + 1].events \ {ev}
    /\ GetEventContext(fdctx'[fd + 1], ev) = NoSlot
    /\ \A o \in Events \ {ev} :
         GetEventContext(fdctx'[fd + 1], o) = GetEventContext(fdctx[fd + 1], o)
    /\ \A i \in 1..Len(fdctx) : i # fd + 1 => fdctx'[i] = fdctx[i]
    /\ Len(fdctx') = Len(fdctx)
    /\ m_tasks' = m_tasks
    /\ submitted' = submitted

\* What a delEvent that refuses does: false returned, nothing changed.
DelRefuses ==
    /\ ioret' = "false"
    /\ UNCHANGED <<fdctx, pending, m_tasks, submitted, cor>>

BitSet(fd, ev) == Len(fdctx) > fd /\ ev \in fdctx[fd + 1].events

\* C14 as stated: delEvent on an unset bit or a descriptor beyond the table
\* returns false and changes nothing, and delEvent on a set bit always
\* removes the registration and returns true.
C14_DelEventAlwaysRemoves ==
    [][\A fd \in Fds, ev \in Events, rt \in EpollResults :
         DelEvent(fd, ev, rt)
           => IF BitSet(fd, ev) THEN DelRemoves(fd, ev) ELSE DelRefuses]_vars

\* C14 amended: delEvent on an unset bit or a descriptor beyond the table
\* returns false and changes nothing; on a set bit it removes the
\* registration and returns true when epoll_ctl succeeds, and returns false
\* and changes nothing when epoll_ctl fails.
C14_DelEvent ==
    [][\A fd \in Fds, ev \in Events, rt \in EpollResults :
         DelEvent(fd, ev, rt)
           => IF BitSet(fd, ev) /\ rt = 0 THEN DelRemoves(fd, ev)
              ELSE DelRefuses]_vars

\* Both events of fd 3 registered, then READ removed.
C14_Witness ==
    /\ fault = "none"
    /\ ioops = 3
    /\ ioret = "true"
    /\ pending = 1
    /\ fdctx[4].events = {"WRITE"}
    /\ fdctx[4].read = NoSlot
    /\ fdctx[4].write # NoSlot
    /\ m_tasks = <<>>
\* The steps thread t takes inside run() and on the fibers it resumes.
Dispatch(t) == Scan(t) \/ ExitRun(t) \/ IdlePass(t) \/ TaskStep(t)

\* The user schedules a few callbacks that return, pinned to a worker or not.
UserSchedulePinned(thr) ==
    /\ Len(submitted) < MaxLiveTasks
    /\ UserScheduleCb("ret", thr)

NextLive ==
    \/ \E thr \in PinTargets : UserSchedulePinned(thr)
    \/ Core

\* Every thread of the scheduler is an operating-system thread that keeps
\* running: idle() yields without blocking, so a thread in run() goes from
\* one pass of the loop to the next without waiting for tickle().
LiveSpecPin ==
    Init /\ [][NextLive]_vars /\ \A t \in Tids : WF_vars(Dispatch(t))

\* Task s is in the queue and thread t, in run() between two passes of its
\* loop, may take it.
IdleEligible(s, t) ==
    /\ fault = "none"
    /\ dpc[t] = "loop"
    /\ tl[t].on = DispStk(t)
    /\ \E i \in 1..Len(m_tasks) :
         m_tasks[i].sid = s /\ m_tasks[i].thread \in {AnyThread, t}

\* Task s has been run by a thread it may run on.
RanWhereAllowed(s) ==
    \E t \in Tids :
        /\ \E k \in 1..Len(ran[t]) : ran[t][k] = s
        /\ submitted[s].thread \in {AnyThread, t}

\* C15: a queued task that an idle worker may take is eventually taken and
\* run, by the thread it is pinned to when it is pinned.
C15_TickleLiveness ==
    \A s \in 1..MaxLiveTasks :
        (\E t \in Tids : IdleEligible(s, t)) ~> RanWhereAllowed(s)

\* A task pinned to thread 2 was run there, after both workers had been
\* through an idle pass and while thread 3 ran nothing.
C15_Witness ==
    /\ fault = "none"
    /\ Len(submitted) = 1
    /\ submitted[1].thread = 2
    /\ ran[2] = <<1>>
    /\ ran[3] = <<>>
    /\ cor[IdleCor(2)].pos = "mid"
    /\ cor[IdleCor(3)].pos = "mid"

\* C16: a stop() that gets past its stopping() test on a thread other than
\* the caller thread fails the assertion on the calling thread and does not
\* put that thread on m_rootCor, when use_caller is set; and fails the
\* assertion when use_caller is not set and the thread is a worker.
C16_StopThreadEnforced ==
    [][\A t \in Tids \ {CallerTid} :
         (/\ StopOnThread(t)
          /\ ~StoppingCond(m_stopping, m_tasks, m_active)
          /\ useCaller \/ t \in Spawned)
           => fault' = "assert_stop_thread" /\ tl'[t].on # RootCor]_vars

----------------------------------------------------------------------------
(* The scheduler at the grain of m_mutex: every operation is split where   *)
(* it takes and releases the lock.  Fibers are left out: a task is run in  *)
(* one step.  The scheduler is made without use_caller.                    *)

InitLock == Init /\ ~useCaller

MutexFree == m_mutex = NoThread

\* What none of these steps changes.
lockFrame == <<useCaller, threadCount, tl, task, cb_cor, userCor, created,
               fault, ioVars>>

\* schedule(cb): MutexType::Lock lock(m_mutex).
ScheduleLock ==
    /\ upc = "user"
    /\ Len(submitted) < MaxTasks
    /\ MutexFree
    /\ m_mutex' = CallerTid
    /\ upc' = "schedule"
    /\ UNCHANGED <<started, m_threads, m_tasks, m_stopping, m_active, cor,
                   dpc, submitted, ran, m_idle,
                   lockFrame>>

\* schedule(cb): scheduleNoLock() and the end of the lock's scope.
ScheduleLocked ==
    /\ upc = "schedule"
    /\ LET sid == Len(submitted) + 1
           tk == [cor |-> NoCor, cb |-> [id |-> sid, prog |-> "ret"],
                  thread |-> AnyThread, sid |-> sid]
       IN /\ m_tasks' = ScheduleNoLock(m_tasks, tk)
          /\ submitted' = Append(submitted, tk)
    /\ m_mutex' = NoThread
    /\ upc' = "user"
    /\ UNCHANGED <<started, m_threads, m_stopping, m_active, cor, dpc, ran,
                   m_idle,
                   lockFrame>>

\* start(): MutexType::Lock lock(m_mutex).
StartLock ==
    /\ upc = "user"
    /\ ~started
    /\ MutexFree
    /\ m_mutex' = CallerTid
    /\ upc' = "start"
    /\ UNCHANGED <<started, m_threads, m_tasks, m_stopping, m_active, cor,
                   dpc, submitted, ran, m_idle,
                   lockFrame>>

\* start(): the test of m_stopping, the threads, the end of the scope.
StartLocked ==
    /\ upc = "start"
    /\ started' = TRUE
    /\ IF m_stopping
       THEN UNCHANGED <<m_threads, dpc>>
       ELSE /\ m_threads' = Spawned
            /\ dpc' = [t \in Tids |-> IF t \in Spawned THEN "loop" ELSE dpc[t]]
    /\ m_mutex' = NoThread
    /\ upc' = "user"
    /\ UNCHANGED <<m_tasks, m_stopping, m_active, cor, submitted, ran,
                   m_idle,
                   lockFrame>>

\* stop(): the call of stopping(), which takes the lock.
StopTestLock ==
    /\ upc = "user"
    /\ MutexFree
    /\ m_mutex' = CallerTid
    /\ upc' = "stop_test"
    /\ UNCHANGED <<started, m_threads, m_tasks, m_stopping, m_active, cor,
                   dpc, submitted, ran, m_idle,
                   lockFrame>>

\* stop(): stopping() reads the flag and the queue and releases the lock;
\* stop() returns when it is true.
StopTestLocked ==
    /\ upc = "stop_test"
    /\ m_mutex' = NoThread
    /\ upc' = IF StoppingCond(m_stopping, m_tasks, m_active) THEN "stopped"
              ELSE "stop_set"
    /\ UNCHANGED <<started, m_threads, m_tasks, m_stopping, m_active, cor,
                   dpc, submitted, ran, m_idle,
                   lockFrame>>

\* stop(): m_stopping = true, with no lock taken.
StopSet ==
    /\ upc = "stop_set"
    /\ m_stopping' = TRUE
    /\ upc' = "stop_swap_wait"
    /\ UNCHANGED <<m_mutex, started, m_threads, m_tasks, m_active, cor, dpc,
                   submitted, ran, m_idle,
                   lockFrame>>

\* stop(): MutexType::Lock lock(m_mutex) around thrs.swap(m_threads).
StopSwapLock ==
    /\ upc = "stop_swap_wait"
    /\ MutexFree
    /\ m_mutex' = CallerTid
    /\ upc' = "stop_swap"
    /\ UNCHANGED <<started, m_threads, m_tasks, m_stopping, m_active, cor,
                   dpc, submitted, ran, m_idle,
                   lockFrame>>

\* stop(): thrs.swap(m_threads) and the end of the scope.
StopSwapLocked ==
    /\ upc = "stop_swap"
    /\ m_threads' = {}
    /\ m_mutex' = NoThread
    /\ upc' = "join"
    /\ UNCHANGED <<started, m_tasks, m_stopping, m_active, cor, dpc,
                   submitted, ran, m_idle,
                   lockFrame>>

\* stop(): every thread joined.
StopJoined ==
    /\ upc = "join"
    /\ \A t \in Tids \ {CallerTid} : dpc[t] \in {"none", "exited"}
    /\ upc' = "stopped"
    /\ UNCHANGED <<m_mutex, started, m_threads, m_tasks, m_stopping, m_active,
                   cor, dpc, submitted, ran, m_idle,
                   lockFrame>>

\* run(): MutexType::Lock lock(m_mutex) at the head of a pass.
ScanLock(t) ==
    /\ dpc[t] = "loop"
    /\ MutexFree
    /\ m_mutex' = t
    /\ dpc' = [dpc EXCEPT ![t] = "scan"]
    /\ UNCHANGED <<started, m_threads, m_tasks, m_stopping, m_active, cor,
                   upc, submitted, ran, m_idle,
                   lockFrame>>

\* run(): the scan of the queue and the end of the scope; with no task, the
\* pass leaves run() when the idle fiber is TERM, or else goes to that fiber:
\* ++m_idleThreadCount; idle_cor->resume().
ScanLocked(t) ==
    /\ dpc[t] = "scan"
    /\ LET i == FirstEligible(m_tasks, t)
       IN IF i > 0
          THEN /\ m_tasks' = RemoveAt(m_tasks, i)
               /\ m_active' = m_active + 1
               /\ ran' = [ran EXCEPT ![t] = Append(@, m_tasks[i].cb.id)]
               /\ dpc' = [dpc EXCEPT ![t] = "in_cb"]
               /\ m_idle' = m_idle
          ELSE /\ dpc' = [dpc EXCEPT ![t] =
                             IF cor[IdleCor(t)].state = "TERM" THEN "exited"
                             ELSE "idle"]
               /\ m_idle' = IF cor[IdleCor(t)].state = "TERM" THEN m_idle
                            ELSE m_idle + 1
               /\ UNCHANGED <<m_tasks, m_active, ran>>
    /\ m_mutex' = NoThread
    /\ UNCHANGED <<started, m_threads, m_stopping, cor, upc, submitted,
                   lockFrame>>

\* A run() that does not count the task's return.
RunTaskNoCount(t) ==
    /\ dpc[t] = "in_cb"
    /\ dpc' = [dpc EXCEPT ![t] = "loop"]
    /\ UNCHANGED <<m_mutex, started, m_threads, m_tasks, m_stopping, m_active,
                   cor, upc, submitted, ran, m_idle, lockFrame>>

\* run(): the callback ran and returned; --m_activeThreadCount.
RunTask(t) ==
    /\ dpc[t] = "in_cb"
    /\ m_active' = m_active - 1
    /\ dpc' = [dpc EXCEPT ![t] = "loop"]
    /\ UNCHANGED <<m_mutex, started, m_threads, m_tasks, m_stopping, cor, upc,
                   submitted, ran, m_idle,
                   lockFrame>>

\* idle(): the call of stopping(), which takes the lock.
IdleLock(t) ==
    /\ dpc[t] = "idle"
    /\ MutexFree
    /\ m_mutex' = t
    /\ dpc' = [dpc EXCEPT ![t] = "stopping"]
    /\ UNCHANGED <<started, m_threads, m_tasks, m_stopping, m_active, cor,
                   upc, submitted, ran, m_idle,
                   lockFrame>>

\* idle(): stopping() reads the flag and the queue and releases the lock;
\* idle() yields when it is false and returns, to TERM, when it is true.
\* Back in run(): --m_idleThreadCount.
IdleLocked(t) ==
    /\ dpc[t] = "stopping"
    /\ m_mutex' = NoThread
    /\ cor' = IF StoppingCond(m_stopping, m_tasks, m_active)
              THEN [cor EXCEPT ![IdleCor(t)].state = "TERM"]
              ELSE cor
    /\ m_idle' = m_idle - 1
    /\ dpc' = [dpc EXCEPT ![t] = "loop"]
    /\ UNCHANGED <<started, m_threads, m_tasks, m_stopping, m_active, upc,
                   submitted, ran, lockFrame>>

NextLock ==
    \/ ScheduleLock
    \/ ScheduleLocked
    \/ StartLock
    \/ StartLocked
    \/ StopTestLock
    \/ StopTestLocked
    \/ StopSet
    \/ StopSwapLock
    \/ StopSwapLocked
    \/ StopJoined
    \/ \E t \in Tids : ScanLock(t)
    \/ \E t \in Tids : ScanLocked(t)
    \/ \E t \in Tids : RunTask(t)
    \/ \E t \in Tids : IdleLock(t)
    \/ \E t \in Tids : IdleLocked(t)

SpecLock == InitLock /\ [][NextLock]_vars

\* Where thread t stands: the caller thread in the user's program, a
\* spawned thread in run().
At(t) == IF t = CallerTid THEN upc ELSE dpc[t]

\* The reads (wr = FALSE) and writes (wr = TRUE) of the guarded members that
\* the step a thread stands at makes.
AccessesAt(pos) ==
    IF pos = "schedule" THEN {[obj |-> "m_tasks", wr |-> TRUE]}
    ELSE IF pos = "start"
    THEN {[obj |-> "m_stopping", wr |-> FALSE],
          [obj |-> "m_threads", wr |-> TRUE],
          [obj |-> "m_threadIds", wr |-> TRUE]}
    ELSE IF pos \in {"stop_test", "stopping"}
    THEN {[obj |-> "m_stopping", wr |-> FALSE],
          [obj |-> "m_tasks", wr |-> FALSE]}
    ELSE IF pos = "stop_set" THEN {[obj |-> "m_stopping", wr |-> TRUE]}
    ELSE IF pos = "stop_swap" THEN {[obj |-> "m_threads", wr |-> TRUE]}
    ELSE IF pos = "scan" THEN {[obj |-> "m_tasks", wr |-> TRUE]}
    ELSE {}

\* C17: no thread stands at a write of the queue, the worker vector, the
\* thread-id list or the stopping flag while another thread stands at a
\* read or write of the same member, unless the lock orders them (which,
\* with one holder, means never both at once); and every such access is
\* made by the holder of m_mutex.
C17_GuardedByMutex ==
    /\ \A t \in Tids, u \in Tids :
         t # u =>
           \A a \in AccessesAt(At(t)), b \in AccessesAt(At(u)) :
               ~(a.obj = b.obj /\ a.wr)
    /\ \A t \in Tids : AccessesAt(At(t)) # {} => m_mutex = t

\* The fiber that runs run() on thread t: m_rootCor on the caller thread of a
\* use_caller scheduler, the thread's main fiber elsewhere.
DispatchCor(t) == IF useCaller /\ t = CallerTid THEN RootCor ELSE MainCor(t)

\* C18: on every thread that has a current fiber, t_cor is the thread's
\* dispatch fiber or a fiber in state RUNNING, before and after every
\* resume, yield and last yield.
C18_CurrentIsRunning ==
    fault = "none" =>
        \A t \in Tids :
            tl[t].t_cor # NoCor =>
                \/ tl[t].t_cor = DispatchCor(t)
                \/ cor[tl[t].t_cor].state = "RUNNING"

\* The caller thread of a use_caller scheduler, back in run() on m_rootCor
\* after a callback that yielded: t_cor is the main fiber, not m_rootCor.
C18_Witness ==
    /\ fault = "none"
    /\ useCaller
    /\ dpc[CallerTid] = "loop"
    /\ tl[CallerTid].on = RootCor
    /\ tl[CallerTid].t_cor = MainCor(CallerTid)
    /\ Len(ran[CallerTid]) = 1
    /\ \E f \in CorIds : IsTaskCor(f) /\ cor[f].state = "READY"

\* C19: reset(cb) on a fiber that has no stack or is not TERM fails its
\* assertion; on a TERM fiber with a stack it leaves the fiber as the
\* constructor would have made it with entry cb (READY, entry cb, context at
\* the start of MainFunc), the same fiber on the same stack with the handles
\* it had.  A resume of a fiber in that condition, reset or new, enters the
\* entry at its start; the fiber is READY after its yield and TERM after
\* its return.
C19_ResetLaw ==
    [][\A f \in CorIds :
         /\ FiberReset(f) /\ ~ResetAssert(cor, f) => fault' = "assert_reset"
         /\ FiberReset(f) /\ ResetAssert(cor, f)
              => /\ fault' = "none"
                 /\ cor'[f] = [NewCor(cor, f, ResetCb(f))[f]
                                  EXCEPT !.refs = cor[f].refs]
                 /\ \A g \in CorIds \ {f} : cor'[g] = cor[g]
         /\ FiberResume(f) /\ cor[f].pos = "entry" /\ fault' = "none"
              => /\ cor[f].state = "READY"
                 /\ cor'[f].state = "RUNNING"
                 /\ cor'[f].pos = "mid"
                 /\ cor'[f].cb = cor[f].cb
                 /\ tl'[CallerTid].on = f
                 /\ tl'[CallerTid].t_cor = f
         /\ FiberYield /\ tl[CallerTid].t_cor = f /\ HasStack(f)
                       /\ fault' = "none"
              => cor'[f].state = "READY" /\ cor'[f].cb = cor[f].cb
         /\ FiberReturn /\ tl[CallerTid].on = f /\ fault' = "none"
              => cor'[f].state = "TERM"]_vars

\* A fiber that ended, was reset, resumed and has yielded from its new entry.
C19_Witness ==
    /\ fault = "none"
    /\ \E f \in Made :
         /\ cor[f].cb = ResetCb(f)
         /\ cor[f].state = "READY"
         /\ cor[f].pos = "mid"

\* C20: the assertion on a fiber task in run() and the assertion in resume()
\* never fail, and a fiber taken from the queue stays READY until the
\* thread that took it has switched to it.
C20_TakenFiberReady ==
    /\ fault \notin {"assert_run_ready", "assert_resume"}
    /\ \A t \in Tids :
         (fault = "none" /\ dpc[t] \in {"got", "resuming"})
            => cor[task[t].cor].state = "READY"

\* C21: every event slot that holds a callback or a fiber holds the
\* IOManager as its scheduler, whichever thread registered it, and
\* triggerEvent never calls schedule() through an empty scheduler pointer.
C21_SlotSchedulerIsThis ==
    /\ fault # "ub_null_scheduler"
    /\ fault = "none" =>
         \A i \in 1..Len(fdctx) : \A ev \in Events :
             LET slot == GetEventContext(fdctx[i], ev)
             IN (slot.cb # NoCb \/ slot.cor # NoCor) => slot.scheduler

\* A queue record has a fiber or a callback.
WellFormed(tk) == tk.cor # NoCor \/ tk.cb # NoCb

\* C22: schedule() of a task with neither fiber nor callback leaves the
\* queue as it was, every record in the queue has a fiber or a callback,
\* and the assertion on the record taken in run() does not fail.
C22_NullScheduleNoOp ==
    [][/\ UserScheduleNull => m_tasks' = m_tasks
       /\ \A i \in 1..Len(m_tasks') : WellFormed(m_tasks'[i])
       /\ fault' # "assert_task_empty"]_vars

\* A null task was scheduled between two callbacks: both callbacks are
\* queued, in their order.
C22_Witness ==
    /\ fault = "none"
    /\ Len(submitted) = 3
    /\ ~WellFormed(submitted[2])
    /\ m_tasks = <<submitted[1], submitted[3]>>

\* Thread t is inside run().
InsideRun(t) == dpc[t] \notin {"none", "exited", "ret"}

C24_TableOnlyGrows ==
    [][/\ Len(fdctx') >= Len(fdctx)
       /\ \A i \in 1..Len(fdctx') : fdctx'[i].fd = i - 1]_vars

\* Thread t has taken a task from the queue and the resume() of that task
\* has not returned; a task that called stop() is still in its resume().
HoldsTask(t) ==
    \/ dpc[t] \in {"got", "resuming", "in_task", "in_cb"}
    \/ dpc[t] = "nested" /\ (task[t] # NoTask \/ cb_cor[t] # NoCor)

\* Thread t is inside the resume() of its idle fiber.
InIdle(t) == dpc[t] \in {"idle", "stopping"}

\* C25: while the program runs, m_activeThreadCount is the number of
\* workers that hold a task, m_idleThreadCount is the number of workers
\* inside their idle fiber, neither count leaves 0..number of workers, and
\* the two together count no worker twice.
C25_CountsMatchWorkers ==
    fault = "none" =>
        /\ m_active = Cardinality({t \in Tids : HoldsTask(t)})
        /\ m_idle = Cardinality({t \in Tids : InIdle(t)})
        /\ m_active \in 0..Cardinality(Workers)
        /\ m_idle \in 0..Cardinality(Workers)
        /\ m_active + m_idle <= Cardinality(Workers)
        /\ \A t \in Tids : (HoldsTask(t) \/ InIdle(t)) => t \in Workers

\* Two workers, one inside a task and one inside its idle fiber, and later
\* both inside their idle fibers.
C25_Witness ==
    /\ fault = "none"
    /\ m_active = 1
    /\ m_idle = 1
    /\ \E t \in Workers : HoldsTask(t)
    /\ \E t \in Workers : InIdle(t)
====
